---------------------------- MODULE Spec2Model ----------------------------
(***************************************************************************)
(* Facility-reservation monitor: src/monitor.py (orchestrator, month       *)
(* navigator, day-cell extractor, status classifier, change detector,      *)
(* persistence) and src/discord_notify.py (webhook notifier).              *)
(*                                                                         *)
(* Text is modelled as a sequence of one-character strings.  The glyphs    *)
(* of the site are written with ASCII stand-ins:                           *)
(*     "o" = U+25CB (circle)        "@" = U+3007 (alternate circle)        *)
(*     "^" = U+25B3 (triangle)      "x" = U+00D7 (cross)                   *)
(*     "d" = U+65E5 (the day sign)  "_" = U+3000 (full-width space)        *)
(*     " " = space                  "n" = newline                          *)
(*     "k", "K", "j" = letters of the configured keywords                  *)
(***************************************************************************)
EXTENDS Integers, Sequences, FiniteSets, TLC

VARIABLES
    \* ---- classifier (_st_from_text_and_src) under SpecClassify
    raw, patterns, st,
    \* ---- day-cell extractor (summarize_vacancies) under SpecExtract
    td_block, config, ti, summary, details,
    html_raises,   \* calendar_root.evaluate("el => el.outerHTML") raises
    \* ---- change detector (summaries_changed) under SpecChange
    prev, cur, changed_ret,
    \* ---- DiscordWebhookClient (send_text, send_embed, _post) under SpecNotify
    n_pc,          \* "call", "post" (about to urlopen), "sleep", "returned", "raised"
    n_op,          \* the method called: "text" or "embed"
    n_phase,       \* what is being posted: the embed, or the pages of send_text
    n_pages,       \* len(pages) of send_text
    n_page,        \* index of the page being posted
    n_tries,       \* tries of the running _post
    n_ok_all,      \* ok_all of send_text
    n_ret,         \* what the method returned: "pending", "true", "false"
    n_log,         \* responses and waits of the running (or last) _post
    n_status,      \* status the last finished _post returned, 0 while none
    \* ---- _split_content under SpecSplit
    s_limit,       \* limit
    s_cur,         \* cur, the text not yet paged
    s_out,         \* out, the pages so far
    s_pc,          \* "loop" at the while test, "done" after the return
    \* ---- locate_calendar_root under SpecLocate
    lc_sel,        \* calendar_selector: configured, and its first match
    lc_page,       \* the elements the generic selectors meet, in order
    lc_ret,        \* what the call returned
    \* ---- main / run_monitor under Spec, SpecMain and SpecRuns
    pc,            \* position of the process
    run,           \* number of the current invocation of the script
    hour, force,   \* JST hour read by main (NoHour: jst_now raised), force flag
    arg_facility,  \* --facility: 0 when absent, else the entry it names
    exit_code,     \* exit status, Running while the process lives
    facilities,    \* config["facilities"] after the --facility filter
    fi,            \* position of the for loop over facilities
    site_cals,     \* how many distinct calendar regions the site shows
    body,          \* the year-month heading in the page's body text
    month_text,    \* month_text / month_text2 / prev_month_text
    cal_root,      \* the element locate_calendar_root returned
    step,          \* the month loop's counter, 0 for the first month
    nm,            \* click_next_month: control clicked, wait outcome, result
    cap,           \* summary and changed of the month being captured
    fs,            \* OUTPUT_ROOT: the files of every facility/month directory
    clock,         \* wall clock in seconds, as _dt.now() reads it
    attempts,      \* facilities navigate_to_facility was called for, in order
    raised,        \* facilities whose processing raised into the handler
    captured,      \* <<facility, step>> whose month was summarized this run
    clicks,        \* next-month clicks dispatched, per facility
    failed_at,     \* step whose click_next_month returned False, per facility
    changed_keys,  \* directories judged changed this run
    notified       \* directories send_aggregate_lines was called for this run

(***************************************************************************)
(* Characters and strings                                                  *)
(***************************************************************************)
CIRCLE == "o"
CIRCLE_ALT == "@"
TRIANGLE == "^"
CROSS == "x"
DAY == "d"
SP == " "
FWSP == "_"
NL == "n"

Digits == {"0", "1", "2", "3", "4", "5", "6", "7", "8", "9"}

\* str.strip() and the regex class \s: ASCII and full-width white space
IsSpace(c) == c \in {SP, FWSP, NL}

RECURSIVE LStrip(_)
LStrip(s) == IF s # <<>> /\ IsSpace(Head(s)) THEN LStrip(Tail(s)) ELSE s

RECURSIVE RStrip(_)
RStrip(s) ==
    IF s # <<>> /\ IsSpace(s[Len(s)]) THEN RStrip(SubSeq(s, 1, Len(s) - 1)) ELSE s

Strip(s) == RStrip(LStrip(s))

\* str.lower(): the only cased letter of the alphabet is "K"
Lower(s) == [i \in 1..Len(s) |-> IF s[i] = "K" THEN "k" ELSE s[i]]

\* str.replace(U+3000, " ")
FoldFullWidth(s) == [i \in 1..Len(s) |-> IF s[i] = FWSP THEN SP ELSE s[i]]

\* needle in hay
Contains(hay, needle) ==
    \E i \in 0..(Len(hay) - Len(needle)) : SubSeq(hay, i + 1, i + Len(needle)) = needle

\* a + " " + b
Join2(a, b) == a \o <<SP>> \o b

(***************************************************************************)
(* Status classifier                                                       *)
(***************************************************************************)
ST_CIRCLE == "circle"
ST_TRIANGLE == "triangle"
ST_CROSS == "cross"
ST_UNKNOWN == "unknown"
ST_NONE == "none"

\* for kw in lst: if kw.lower() in n
AnyKeyword(lst, n) == \E i \in 1..Len(lst) : Contains(n, Lower(lst[i]))

Mut_st_keywords_first(text, pats) ==
    LET txt == Strip(text)
        n == Lower(FoldFullWidth(txt))
    IN  IF AnyKeyword(pats.circle, n) THEN ST_CIRCLE
        ELSE IF AnyKeyword(pats.triangle, n) THEN ST_TRIANGLE
        ELSE IF AnyKeyword(pats.cross, n) THEN ST_CROSS
        ELSE IF Contains(txt, <<CIRCLE>>) THEN ST_CIRCLE
        ELSE IF Contains(txt, <<CIRCLE_ALT>>) THEN ST_CIRCLE
        ELSE IF Contains(txt, <<TRIANGLE>>) THEN ST_TRIANGLE
        ELSE IF Contains(txt, <<CROSS>>) THEN ST_CROSS
        ELSE ST_NONE

\* _st_from_text_and_src(raw, patterns); the result None is ST_NONE
st_from_text_and_src(text, pats) ==
    LET txt == Strip(text)
        n == Lower(FoldFullWidth(txt))
    IN  IF Contains(txt, <<CIRCLE>>) THEN ST_CIRCLE
        ELSE IF Contains(txt, <<CIRCLE_ALT>>) THEN ST_CIRCLE
        ELSE IF Contains(txt, <<TRIANGLE>>) THEN ST_TRIANGLE
        ELSE IF Contains(txt, <<CROSS>>) THEN ST_CROSS
        ELSE IF AnyKeyword(pats.circle, n) THEN ST_CIRCLE
        ELSE IF AnyKeyword(pats.triangle, n) THEN ST_TRIANGLE
        ELSE IF AnyKeyword(pats.cross, n) THEN ST_CROSS
        ELSE ST_NONE

\* _status_from_class(cls, css_class_patterns): kw is not lower-cased here
status_from_class(cls, cssp) ==
    IF cls = <<>> THEN ST_NONE
    ELSE LET c == Lower(cls)
         IN  IF \E i \in 1..Len(cssp.circle) : Contains(c, cssp.circle[i]) THEN ST_CIRCLE
             ELSE IF \E i \in 1..Len(cssp.triangle) : Contains(c, cssp.triangle[i])
                  THEN ST_TRIANGLE
             ELSE IF \E i \in 1..Len(cssp.cross) : Contains(c, cssp.cross[i]) THEN ST_CROSS
             ELSE ST_NONE


(***************************************************************************)
(* Day-number pattern  ([1-9]|[12]\d|3[01])\s*日                           *)
(***************************************************************************)
\* \s* from position j: the first position that holds no white space
RECURSIVE SkipSpaces(_, _)
SkipSpaces(s, j) == IF j <= Len(s) /\ IsSpace(s[j]) THEN SkipSpaces(s, j + 1) ELSE j

\* \s*日 from position j: the position of the day sign, or 0
DayTail(s, j) ==
    LET e == SkipSpaces(s, j)
    IN  IF e <= Len(s) /\ s[e] = DAY THEN e ELSE 0

\* the pattern anchored at position i, alternatives tried in the regex's
\* order with backtracking: the end of the match, or 0
DayMatchAt(s, i) ==
    IF s[i] \in Digits \ {"0"} /\ DayTail(s, i + 1) > 0 THEN DayTail(s, i + 1)
    ELSE IF i + 1 <= Len(s) /\ s[i] \in {"1", "2"} /\ s[i + 1] \in Digits
            /\ DayTail(s, i + 2) > 0
         THEN DayTail(s, i + 2)
    ELSE IF i + 1 <= Len(s) /\ s[i] = "3" /\ s[i + 1] \in {"0", "1"}
            /\ DayTail(s, i + 2) > 0
         THEN DayTail(s, i + 2)
    ELSE 0

\* _find_day_in_text(text): m.group(0) of the leftmost match; None is <<>>
find_day_in_text(text) ==
    LET hits == {i \in 1..Len(text) : DayMatchAt(text, i) > 0}
    IN  IF hits = {} THEN <<>>
        ELSE LET i == CHOOSE h \in hits : \A g \in hits : h <= g
             IN  SubSeq(text, i, DayMatchAt(text, i))

(***************************************************************************)
(* Calendar markup.  A data cell (<td ...> ... </td>) is its attribute     *)
(* list in document order and its child nodes.  An attribute name is the   *)
(* sequence of its hyphen-separated parts, <<"data", "title">> for         *)
(* data-title.  A node is a text run, an <img ...> or a <br>.              *)
(***************************************************************************)
A_CLASS == <<"class">>
A_TITLE == <<"title">>
A_ARIA_LABEL == <<"aria", "label">>
A_DATA_TITLE == <<"data", "title">>
A_ALT == <<"alt">>
A_SRC == <<"src">>

Attr(name, value) == [n |-> name, v |-> value]
TextNode(s) == [k |-> "text", s |-> s, attrs |-> <<>>]
ImgNode(attrs) == [k |-> "img", s |-> <<>>, attrs |-> attrs]
BrNode == [k |-> "br", s |-> <<>>, attrs |-> <<>>]
Td(attrs, kids) == [attrs |-> attrs, inner |-> kids]

\* name ends with key: what  key\s*=\s*"([^"]*)"  can match inside the
\* serialized attribute list, the regex carrying no word boundary before key
NameEndsWith(name, key) ==
    /\ Len(name) >= Len(key)
    /\ SubSeq(name, Len(name) - Len(key) + 1, Len(name)) = key

Mut_AttrSearch_First(attrs, key) ==
    IF attrs = <<>> THEN <<>> ELSE attrs[1].v

\* re.search(key\s*=\s*"([^"]*)", attrs): the value of the first attribute,
\* in document order, whose serialized name ends with key; "" when none
AttrSearch(attrs, key) ==
    LET hits == {i \in 1..Len(attrs) : NameEndsWith(attrs[i].n, key)}
    IN  IF hits = {} THEN <<>>
        ELSE attrs[CHOOSE h \in hits : \A g \in hits : h <= g].v

\* el.get_attribute(name) of the live element: the attribute of that name
GetAttribute(attrs, name) ==
    LET hits == {i \in 1..Len(attrs) : attrs[i].n = name}
    IN  IF hits = {} THEN <<>>
        ELSE attrs[CHOOSE h \in hits : \A g \in hits : h <= g].v

\* _extract_td_blocks: the dict kept for one <td>
TdBlock(td) ==
    [attrs |-> td.attrs,
     class |-> AttrSearch(td.attrs, A_CLASS),
     title |-> AttrSearch(td.attrs, A_TITLE),
     aria  |-> AttrSearch(td.attrs, A_ARIA_LABEL),
     inner |-> td.inner]

\* re.sub(r"\s+", " ", s)
RECURSIVE CollapseSpaces(_)
CollapseSpaces(s) ==
    IF s = <<>> THEN <<>>
    ELSE IF IsSpace(Head(s))
         THEN <<SP>> \o CollapseSpaces(LStrip(s))
         ELSE <<Head(s)>> \o CollapseSpaces(Tail(s))

\* the fragment with <br> and every other tag replaced by one space
RECURSIVE TagsToSpaces(_)
TagsToSpaces(nodes) ==
    IF nodes = <<>> THEN <<>>
    ELSE (IF Head(nodes).k = "text" THEN Head(nodes).s ELSE <<SP>>)
         \o TagsToSpaces(Tail(nodes))

\* _inner_text_like(html_fragment)
inner_text_like(nodes) == Strip(CollapseSpaces(TagsToSpaces(nodes)))

\* el.inner_text() of the live cell: text runs, <br> as a line break
RECURSIVE InnerText(_)
InnerText(nodes) ==
    IF nodes = <<>> THEN <<>>
    ELSE (IF Head(nodes).k = "text" THEN Head(nodes).s
          ELSE IF Head(nodes).k = "br" THEN <<NL>> ELSE <<>>)
         \o InnerText(Tail(nodes))

\* the <img ...> tags of the fragment, in order
Imgs(nodes) == SelectSeq(nodes, LAMBDA nd : nd.k = "img")

\* lines 501-512: the day found in the first image whose alt/title holds one
RECURSIVE DayFromImgs(_)
DayFromImgs(imgs) ==
    IF imgs = <<>> THEN <<>>
    ELSE LET dd == find_day_in_text(Join2(AttrSearch(Head(imgs).attrs, A_ALT),
                                          AttrSearch(Head(imgs).attrs, A_TITLE)))
         IN  IF dd # <<>> THEN dd ELSE DayFromImgs(Tail(imgs))

\* lines 522-535: st is assigned for each image until one is found; after a
\* loop that found nothing st holds the last image's None
RECURSIVE StatusFromImgs(_, _)
StatusFromImgs(imgs, pats) ==
    IF imgs = <<>> THEN ST_NONE
    ELSE LET a == Head(imgs).attrs
             s == st_from_text_and_src(
                    Join2(Join2(AttrSearch(a, A_ALT), AttrSearch(a, A_TITLE)),
                          AttrSearch(a, A_SRC)), pats)
         IN  IF s # ST_NONE THEN s ELSE StatusFromImgs(Tail(imgs), pats)

\* lines 492-512: the day of one <td>, <<>> when none is discoverable
TdDay(td) ==
    LET blk == TdBlock(td)
        text_like == inner_text_like(blk.inner)
        d1 == find_day_in_text(text_like)
        d2 == find_day_in_text(Join2(blk.title, blk.aria))
    IN  IF d1 # <<>> THEN d1
        ELSE IF d2 # <<>> THEN d2
        ELSE DayFromImgs(Imgs(blk.inner))

\* lines 519-542: the status of one <td>
TdStatus(td, cfg) ==
    LET blk == TdBlock(td)
        text_like == inner_text_like(blk.inner)
        s1 == st_from_text_and_src(text_like, cfg.status_patterns)
        s2 == StatusFromImgs(Imgs(blk.inner), cfg.status_patterns)
        s3 == status_from_class(blk.class, cfg.css_class_patterns)
    IN  IF s1 # ST_NONE THEN s1
        ELSE IF s2 # ST_NONE THEN s2
        ELSE IF s3 # ST_NONE THEN s3
        ELSE ST_UNKNOWN

EmptySummary ==
    [circle |-> 0, triangle |-> 0, cross |-> 0, unknown |-> 0]

Mut_ProcessTd_skip_unknown(td, cfg, acc) ==
    IF TdDay(td) = <<>> \/ TdStatus(td, cfg) = ST_UNKNOWN THEN acc
    ELSE [summary |-> [acc.summary EXCEPT ![TdStatus(td, cfg)] = @ + 1],
          details |-> Append(acc.details,
                             [day |-> TdDay(td), status |-> TdStatus(td, cfg),
                              text |-> inner_text_like(td.inner)])]

\* lines 488-545: one iteration of the loop over td_blocks
ProcessTd(td, cfg, acc) ==
    IF TdDay(td) = <<>> THEN acc
    ELSE LET s == TdStatus(td, cfg)
         IN  [summary |-> [acc.summary EXCEPT ![s] = @ + 1],
              details |-> Append(acc.details,
                                 [day |-> TdDay(td), status |-> s,
                                  text |-> inner_text_like(td.inner)])]

\* summarize_vacancies on the markup of the calendar region
RECURSIVE FoldTds(_, _, _)
FoldTds(tds, cfg, acc) ==
    IF tds = <<>> THEN acc ELSE FoldTds(Tail(tds), cfg, ProcessTd(Head(tds), cfg, acc))

summarize_vacancies(tds, cfg) ==
    FoldTds(tds, cfg, [summary |-> EmptySummary, details |-> <<>>])

\* line 568: head = txt[:40]
HEAD_LEN == 40

\* lines 569-588: the day the live query finds for one cell: the pattern at
\* the start of a line of the first characters of inner_text(), else anywhere
\* in aria-label and title, else in the first image whose alt/title holds it
FallbackDay(td) ==
    LET txt == Strip(InnerText(td.inner))
        head == SubSeq(txt, 1, IF Len(txt) < HEAD_LEN THEN Len(txt) ELSE HEAD_LEN)
        hits == {i \in 1..Len(head) :
                    (i = 1 \/ head[i - 1] = NL) /\ DayMatchAt(head, i) > 0}
        d2 == find_day_in_text(Join2(GetAttribute(td.attrs, A_ARIA_LABEL),
                                     GetAttribute(td.attrs, A_TITLE)))
        imgs == Imgs(td.inner)
        ihits == {j \in 1..Len(imgs) :
                    find_day_in_text(Join2(GetAttribute(imgs[j].attrs, A_ALT),
                                           GetAttribute(imgs[j].attrs, A_TITLE))) # <<>>}
    IN  IF hits # {}
        THEN LET i == CHOOSE h \in hits : \A g \in hits : h <= g
             IN  SubSeq(head, i, DayMatchAt(head, i))
        ELSE IF d2 # <<>> THEN d2
        ELSE IF ihits # {}
        THEN LET j == CHOOSE h \in ihits : \A g \in ihits : h <= g
             IN  find_day_in_text(Join2(GetAttribute(imgs[j].attrs, A_ALT),
                                        GetAttribute(imgs[j].attrs, A_TITLE)))
        ELSE <<>>

\* lines 592-627: the status the live query finds for one cell
FallbackStatus(td, cfg) ==
    LET pats == cfg.status_patterns
        imgs == Imgs(td.inner)
        ist == [j \in 1..Len(imgs) |->
                  LET a == st_from_text_and_src(
                              Join2(GetAttribute(imgs[j].attrs, A_ALT),
                                    GetAttribute(imgs[j].attrs, A_TITLE)), pats)
                  IN  IF a # ST_NONE THEN a
                      ELSE st_from_text_and_src(GetAttribute(imgs[j].attrs, A_SRC), pats)]
        ihits == {j \in 1..Len(imgs) : ist[j] # ST_NONE}
        s1 == st_from_text_and_src(Strip(InnerText(td.inner)), pats)
        s3 == st_from_text_and_src(Join2(GetAttribute(td.attrs, A_ARIA_LABEL),
                                         GetAttribute(td.attrs, A_TITLE)), pats)
        s4 == status_from_class(GetAttribute(td.attrs, A_CLASS), cfg.css_class_patterns)
    IN  IF s1 # ST_NONE THEN s1
        ELSE IF ihits # {} THEN ist[CHOOSE h \in ihits : \A g \in ihits : h <= g]
        ELSE IF s3 # ST_NONE THEN s3
        ELSE IF s4 # ST_NONE THEN s4
        ELSE ST_UNKNOWN

\* lines 563-629: one iteration of _summarize_vacancies_fallback
FallbackTd(td, cfg, acc) ==
    IF FallbackDay(td) = <<>> THEN acc
    ELSE LET s == FallbackStatus(td, cfg)
         IN  [summary |-> [acc.summary EXCEPT ![s] = @ + 1],
              details |-> Append(acc.details,
                                 [day |-> FallbackDay(td), status |-> s,
                                  text |-> Strip(InnerText(td.inner))])]


(***************************************************************************)
(* Change detector                                                         *)
(* A summary as load_last_summary returns it is None or a JSON object: a   *)
(* sequence of <<key, count>> items in the order the document lists them.  *)
(***************************************************************************)
SummaryKeys == <<ST_CIRCLE, ST_TRIANGLE, ST_CROSS, ST_UNKNOWN>>

NoneSummary == [none |-> TRUE, items |-> <<>>]
Dict(items) == [none |-> FALSE, items |-> items]

\* (d or {}).get(k, 0)
DictGet(d, k) ==
    LET hits == {i \in 1..Len(d.items) : d.items[i][1] = k}
    IN  IF d.none \/ hits = {} THEN 0
        ELSE d.items[CHOOSE h \in hits : TRUE][2]

\* json.dumps / json.loads of the summary dict built at line 473
AsDict(sm) == Dict([i \in 1..Len(SummaryKeys) |-> <<SummaryKeys[i], sm[SummaryKeys[i]]>>])

Mut_summaries_changed_three_keys(p, c) ==
    IF p.none /\ ~c.none THEN TRUE
    ELSE IF p.none /\ c.none THEN FALSE
    ELSE \E i \in 1..(Len(SummaryKeys) - 1) :
            DictGet(p, SummaryKeys[i]) # DictGet(c, SummaryKeys[i])

\* summaries_changed(prev, cur)
summaries_changed(p, c) ==
    IF p.none /\ ~c.none THEN TRUE
    ELSE IF p.none /\ c.none THEN FALSE
    ELSE \E i \in 1..Len(SummaryKeys) :
            DictGet(p, SummaryKeys[i]) # DictGet(c, SummaryKeys[i])

(***************************************************************************)
(* Bounds of the pure-function specifications                              *)
(***************************************************************************)
MaxTextLen == 2
MaxCells == 2
MaxCount == 1

\* cell texts handed to the classifier
ClassifyAlphabet == {CIRCLE, CIRCLE_ALT, TRIANGLE, CROSS, "k", "K", SP, FWSP}
ClassifyTexts == UNION {[1..n -> ClassifyAlphabet] : n \in 0..MaxTextLen}

\* keyword lists a configuration may hold: none, a word, a cased word and a
\* glyph, the empty keyword
KeywordLists ==
    { <<>>, << <<"k">> >>, << <<"K", SP>>, <<CROSS>> >>, << <<>> >> }
PatternSets ==
    [circle : KeywordLists, triangle : KeywordLists, cross : KeywordLists]

\* config.json as used by the extractor
Configs ==
    { [status_patterns |-> [circle |-> << <<"k">> >>, triangle |-> << <<"j">> >>,
                            cross |-> <<>>],
       css_class_patterns |-> [circle |-> <<>>, triangle |-> << <<"j">> >>,
                               cross |-> << <<"k">> >>]],
      [status_patterns |-> [circle |-> <<>>, triangle |-> <<>>, cross |-> << <<"k">> >>],
       css_class_patterns |-> [circle |-> << <<"k">> >>, triangle |-> <<>>,
                               cross |-> <<>>]] }

\* the data cells of the markup
CellTexts ==
    { <<>>, <<"1", DAY>>, <<"3", "1", SP, DAY, CROSS>>, <<CIRCLE>>, <<"k">> }
CellAttrs ==
    { <<>>,
      <<Attr(A_TITLE, <<"2", DAY>>)>>,
      <<Attr(A_ARIA_LABEL, <<"2", DAY, SP, "k">>)>>,
      <<Attr(A_DATA_TITLE, <<"2", DAY>>)>>,
      <<Attr(A_CLASS, <<"j">>)>> }
CellImgs ==
    { <<>>,
      <<ImgNode(<<Attr(A_ALT, <<"3", DAY>>)>>)>>,
      <<ImgNode(<<Attr(A_SRC, <<"k">>), Attr(A_ALT, <<TRIANGLE>>)>>)>> }
CellDomain ==
    { Td(a, (IF t = <<>> THEN <<>> ELSE <<TextNode(t)>>) \o g) :
        a \in CellAttrs, t \in CellTexts, g \in CellImgs }

SummaryDicts ==
    { Dict([i \in 1..Len(SummaryKeys) |-> <<SummaryKeys[i], f[SummaryKeys[i]]>>]) :
        f \in [{ST_CIRCLE, ST_TRIANGLE, ST_CROSS, ST_UNKNOWN} -> 0..MaxCount] }
Reverse(q) == [i \in 1..Len(q) |-> q[Len(q) + 1 - i]]
\* the same objects with their keys listed in the opposite order
ReorderedDicts == { Dict(Reverse(d.items)) : d \in SummaryDicts }
\* objects that lack some of the keys
PartialDicts ==
    { Dict(SelectSeq(d.items, LAMBDA it : it[1] \in ks)) :
        d \in SummaryDicts \cup ReorderedDicts,
        ks \in SUBSET {ST_CIRCLE, ST_TRIANGLE, ST_CROSS, ST_UNKNOWN} }

(***************************************************************************)
(* Idle values: the state of a component a specification does not run      *)
(***************************************************************************)
classifyVars == <<raw, patterns, st>>
extractVars == <<td_block, config, ti, summary, details, html_raises>>
changeVars == <<prev, cur, changed_ret>>

ClassifyIdle ==
    /\ raw = <<>>
    /\ patterns = [circle |-> <<>>, triangle |-> <<>>, cross |-> <<>>]
    /\ st = "idle"

ExtractIdle ==
    /\ td_block = Td(<<>>, <<>>)
    /\ config = CHOOSE c \in Configs : TRUE
    /\ ti = 0
    /\ summary = EmptySummary
    /\ details = <<>>
    /\ html_raises = FALSE

ChangeIdle ==
    /\ prev = NoneSummary
    /\ cur = NoneSummary
    /\ changed_ret = "idle"

(***************************************************************************)
(* SpecClassify: _st_from_text_and_src applied to a text and keyword lists *)
(***************************************************************************)
ClassifyInit ==
    /\ raw \in ClassifyTexts
    /\ patterns \in PatternSets
    /\ st = "pending"

Classify ==
    /\ st = "pending"
    /\ st' = st_from_text_and_src(raw, patterns)
    /\ UNCHANGED <<raw, patterns>>

(***************************************************************************)
(* SpecExtract: the loop of summarize_vacancies over the <td> blocks of    *)
(* the markup, one block per step; td_block is the block just read         *)
(***************************************************************************)
ExtractInit ==
    /\ td_block = Td(<<>>, <<>>)
    /\ config \in Configs
    /\ html_raises \in BOOLEAN
    /\ ti = 0
    /\ summary = EmptySummary
    /\ details = <<>>

\* one cell of the region: read from the markup (lines 488-545) or, when
\* retrieving the markup raised (lines 477-481), from the live element by
\* _summarize_vacancies_fallback
ExtractStep ==
    /\ ti < MaxCells
    /\ \E c \in CellDomain :
          LET acc == [summary |-> summary, details |-> details]
              r == IF html_raises THEN FallbackTd(c, config, acc) ELSE ProcessTd(c, config, acc)
          IN  /\ td_block' = c
              /\ summary' = r.summary
              /\ details' = r.details
    /\ ti' = ti + 1
    /\ UNCHANGED <<config, html_raises>>

(***************************************************************************)
(* SpecChange: summaries_changed applied to a persisted and a new summary  *)
(***************************************************************************)
ChangeInit ==
    /\ prev \in {NoneSummary} \cup PartialDicts
    /\ cur \in {NoneSummary} \cup SummaryDicts \cup ReorderedDicts
    /\ changed_ret = "pending"

Compare ==
    /\ changed_ret = "pending"
    /\ changed_ret' = (IF summaries_changed(prev, cur) THEN "true" ELSE "false")
    /\ UNCHANGED <<prev, cur>>


(***************************************************************************)
(* Months and month texts                                                  *)
(***************************************************************************)
\* f"{y}年{mo}月", "unknown", f"shift_{step}", and None / ""
MTym(y, m) == [kind |-> "ym", y |-> y, m |-> m]
MTUnknown == [kind |-> "unknown", y |-> 0, m |-> 0]
MTShift(k) == [kind |-> "shift", y |-> 0, m |-> k]
MTNone == [kind |-> "none", y |-> 0, m |-> 0]

\* the heading of the page: absent, or a year and month written with or
\* without white space around the numbers
NoBody == [has |-> FALSE, y |-> 0, m |-> 0, spaced |-> FALSE]
Heading(y, m, spaced) == [has |-> TRUE, y |-> y, m |-> m, spaced |-> spaced]

\* get_current_year_month_text(page): (\d{4})\s*年\s*(\d{1,2})\s*月 searched
\* in the body text and re-formatted
get_current_year_month_text(b) == IF b.has THEN MTym(b.y, b.m) ELSE MTNone

\* _compute_next_month_text(prev)
compute_next_month_text(p) ==
    IF p.kind # "ym" THEN MTNone
    ELSE IF p.m = 12 THEN MTym(p.y + 1, 1)
    ELSE MTym(p.y, p.m + 1)

Mut_is_forward_any_later(p, c) ==
    /\ p.kind = "ym"
    /\ c.kind = "ym"
    /\ (c.y > p.y \/ (c.y = p.y /\ c.m > p.m))

\* _is_forward(prev, cur), _ym being the parse of a month text
is_forward(p, c) ==
    IF p.kind # "ym" \/ c.kind # "ym" THEN FALSE
    ELSE \/ (p.m = 12 /\ c.y = p.y + 1 /\ c.m = 1)
         \/ (c.y = p.y /\ c.m = p.m + 1)

\* document.body.innerText.includes(goal)
BodyIncludes(b, goal) ==
    b.has /\ ~b.spaced /\ goal.kind = "ym" /\ b.y = goal.y /\ b.m = goal.m


(***************************************************************************)
(* Bounds and inputs of the orchestrator                                   *)
(***************************************************************************)
NFacilities == 2     \* facilities in config.json
MaxShift == 2        \* largest month offset a facility lists
NCalendars == 3      \* distinct calendar regions the site may show
MaxClock == 1        \* last second of the wall clock
MaxRuns == 2         \* invocations of the script

MONITOR_START_HOUR == 5
MONITOR_END_HOUR == 23
NoHour == 24         \* jst_now() raised: now is None
Running == 99        \* exit_code while the process has not exited

\* now.hour
Hours == 0..23

StartYear == 2026
StartMonthNo == 11
\* the month k steps after the one the site shows first (k may be negative)
MonthAt(k) ==
    LET n == (StartMonthNo - 1) + k
    IN  [y |-> StartYear + (n \div 12), m |-> (n % 12) + 1]
MonthWindow == {MonthAt(k) : k \in (0 - 1)..(MaxShift + 1)}

\* config["facilities"][i]: odd entries keep the default month_shifts [0, 1],
\* even entries list the single offset MaxShift and a next_month_selector
FacilityCfg(i) ==
    [name |-> i,
     month_shifts |-> IF i % 2 = 1 THEN <<0, 1>> ELSE <<MaxShift>>,
     next_month_selector |-> (i % 2 = 0)]

SeqRange(q) == {q[i] : i \in 1..Len(q)}
SetMax(S) == CHOOSE x \in S : \A y \in S : y <= x

Mut_Shifts_without_zero(f) == SeqRange(FacilityCfg(f).month_shifts)

\* lines 716-718: sorted(set(month_shifts)) with 0 inserted
Shifts(f) == SeqRange(FacilityCfg(f).month_shifts) \cup {0}

Mut_max_shift_exclusive(f) == SetMax(Shifts(f)) - 1

\* line 719
max_shift(f) == SetMax(Shifts(f))

\* the markup of calendar region c: regions 1 and 2 differ in markup and
\* agree in their counts, the others differ in counts
CalendarHtml(c) ==
    IF c % 3 = 1 THEN <<Td(<<>>, <<TextNode(<<"1", DAY, CIRCLE>>)>>)>>
    ELSE IF c % 3 = 2 THEN <<Td(<<>>, <<TextNode(<<CIRCLE>>)>>),
                             Td(<<>>, <<TextNode(<<"2", DAY, SP, CIRCLE_ALT>>)>>)>>
    ELSE <<Td(<<>>, <<TextNode(<<"1", DAY, CROSS>>)>>),
           Td(<<Attr(A_CLASS, <<"j">>)>>, <<TextNode(<<"2", DAY>>)>>)>> \o
         [i \in 1..(c \div 3 - 1) |-> Td(<<>>, <<TextNode(<<"3", DAY>>)>>)]

RunConfig == CHOOSE c \in Configs : c.status_patterns.circle # <<>>

(***************************************************************************)
(* click_next_month, part 1: find the control and click it                 *)
(* ctl is what the page offers: each selector candidate absent, clickable  *)
(* ("ok") or present with a click that raises ("throws"), and the dates    *)
(* (YYYYMMDD) of the moveCalender anchors in document order                *)
(***************************************************************************)
Ymd(mo, d) == mo.y * 10000 + mo.m * 100 + d

\* _next_yyyymm01(prev): None is 0
next_yyyymm01(p) ==
    IF p.kind # "ym" THEN 0
    ELSE IF p.m = 12 THEN Ymd([y |-> p.y + 1, m |-> 1], 1)
    ELSE Ymd([y |-> p.y, m |-> p.m + 1], 1)

\* lines 343-345: cur01, None is 0
cur01_of(p) == IF p.kind # "ym" THEN 0 ELSE Ymd([y |-> p.y, m |-> p.m], 1)

\* lines 346-353: the loop over the anchors; chosen_date None is 0
RECURSIVE HrefScan(_, _, _, _)
HrefScan(els, target, cur01, chosen_date) ==
    IF els = <<>> THEN chosen_date
    ELSE LET ymd == Head(els)
         IN  IF target # 0 /\ ymd = target THEN ymd
             ELSE IF cur01 # 0 /\ ymd > cur01 /\ (chosen_date = 0 \/ ymd < chosen_date)
                  THEN HrefScan(Tail(els), target, cur01, ymd)
             ELSE HrefScan(Tail(els), target, cur01, chosen_date)

\* lines 327-336: the first selector candidate that exists and clicks
FirstClickable(cands) ==
    LET hits == {i \in 1..Len(cands) : cands[i].state = "ok"}
    IN  IF hits = {} THEN "none"
        ELSE cands[CHOOSE h \in hits : \A g \in hits : h <= g].via

\* lines 324-358: which control is clicked, "none" when click_next_month
\* returns False at line 358
FindAndClick(ctl, f, p) ==
    LET cands == (IF FacilityCfg(f).next_month_selector
                  THEN <<[via |-> "cfg", state |-> ctl.cfg]>> ELSE <<>>)
                 \o <<[via |-> "text", state |-> ctl.t1],
                      [via |-> "text", state |-> ctl.t2]>>
        bysel == FirstClickable(cands)
        chosen == HrefScan(ctl.hrefs, next_yyyymm01(p), cur01_of(p), 0)
    IN  IF bysel # "none" THEN [via |-> bysel, date |-> 0]
        ELSE IF chosen # 0 /\ ctl.href_click = "ok" THEN [via |-> "href", date |-> chosen]
        ELSE [via |-> "none", date |-> 0]

HrefDates == {Ymd(mo, 1) : mo \in MonthWindow}
HrefLists ==
    {<<>>} \cup {<<a>> : a \in HrefDates}
           \cup {l \in {<<a, b>> : a \in HrefDates, b \in HrefDates} : l[1] # l[2]}
\* pages with selector candidates and no dated anchor, pages with dated
\* anchors whose selector candidates are absent or fail to click, and pages
\* with one dated anchor and a link whose text matches a:has-text('次の月')
Controls ==
    [cfg : {"absent", "ok", "throws"}, t1 : {"absent", "ok"}, t2 : {"absent", "ok"},
     hrefs : {<<>>}, href_click : {"ok"}]
    \cup
    [cfg : {"absent", "throws"}, t1 : {"absent"}, t2 : {"absent"},
     hrefs : HrefLists \ {<<>>}, href_click : {"ok", "throws"}]
    \cup
    [cfg : {"absent"}, t1 : {"ok"}, t2 : {"absent"},
     hrefs : {<<a>> : a \in HrefDates}, href_click : {"ok"}]

\* lines 360-383: wait for the goal text, confirm the direction, report
\* waited: "skipped" when goal is "", else whether the goal text appeared
WaitOutcome(b, p) ==
    IF compute_next_month_text(p).kind # "ym" THEN "skipped"
    ELSE IF BodyIncludes(b, compute_next_month_text(p)) THEN "appeared"
    ELSE "timeout"

Mut_ConfirmDirection_fail_on_timeout(b, p) ==
    /\ WaitOutcome(b, p) # "timeout"
    /\ ~(get_current_year_month_text(b).kind # "none"
         /\ ~is_forward(p, get_current_year_month_text(b)))

\* lines 372-383: False at line 378, True at line 383 (prev_month_text is
\* never empty when run_monitor calls)
ConfirmDirection(b, p) ==
    LET c == get_current_year_month_text(b)
    IN  ~(c.kind # "none" /\ ~is_forward(p, c))


(***************************************************************************)
(* Persistence: one directory per facility and month text                  *)
(***************************************************************************)
\* a directory facility_month_dir has just created: no status_counts.json,
\* no calendar.html / calendar.png (0), no calendar_<ts>.html / .png
EmptyDir ==
    [summary |-> NoneSummary, html |-> 0, png |-> 0, hist_html |-> {}, hist_png |-> {}]

\* facility_month_dir(short, month_text): mkdir -p
facility_month_dir(files, key) ==
    IF key \in DOMAIN files THEN files ELSE files @@ (key :> EmptyDir)

\* load_last_summary(outdir)
load_last_summary(files, key) == files[key].summary

\* a file calendar_<ts>.* written: a file of that name is replaced
WriteTs(hist, ts, c) == {h \in hist : h[1] # ts} \cup {<<ts, c>>}

\* the writes of one call, in order: calendar.html, calendar.png and, when
\* save_ts, calendar_<ts>.html and calendar_<ts>.png
SaveWrites(save_ts) == IF save_ts THEN 4 ELSE 2

\* the directory after the first w writes of a call
AfterWrites(d, c, ts, w) ==
    [d EXCEPT !.html = IF w >= 1 THEN c ELSE @,
              !.png = IF w >= 2 THEN c ELSE @,
              !.hist_html = IF w >= 3 THEN WriteTs(@, ts, c) ELSE @,
              !.hist_png = IF w >= 4 THEN WriteTs(@, ts, c) ELSE @]

Mut_save_swallows_failure(d, c, ts, save_ts, fail) ==
    LET n == SaveWrites(save_ts)
    IN  [dir |-> AfterWrites(d, c, ts, IF fail \in 1..n THEN fail - 1 ELSE n),
         raised |-> FALSE]

Mut_save_always_timestamped(d, c, ts, save_ts, fail) ==
    LET n == SaveWrites(TRUE)
    IN  [dir |-> AfterWrites(d, c, ts, IF fail \in 1..n THEN fail - 1 ELSE n),
         raised |-> fail \in 1..n]

\* save_calendar_assets(cal_root, outdir, save_ts) at second ts; fail is the
\* write that raises and ends the call (0, or a write the call does not
\* reach: none raises)
save_calendar_assets(d, c, ts, save_ts, fail) ==
    LET n == SaveWrites(save_ts)
    IN  [dir |-> AfterWrites(d, c, ts, IF fail \in 1..n THEN fail - 1 ELSE n),
         raised |-> fail \in 1..n]

(***************************************************************************)
(* Webhook notifier (src/discord_notify.py)                                *)
(* A response of the endpoint is an HTTP status, or -1 for an exception of *)
(* urlopen that is no HTTPError, and its Retry-After header: absent, a     *)
(* number of tenths of a second, "inf", or text that is no number (an      *)
(* HTTP-date).                                                             *)
(***************************************************************************)
MaxPages == 2        \* pages one send_text posts

max_tries == 3

NetworkError == 0 - 1
Statuses == {200, 204, 403, 429, NetworkError}
RetryAfterHeaders ==
    {[kind |-> "absent", v |-> 0], [kind |-> "num", v |-> 0], [kind |-> "num", v |-> 20],
     [kind |-> "inf", v |-> 0], [kind |-> "text", v |-> 0]}
Responses ==
    {[status |-> s, retry_after |-> h] : s \in Statuses \ {429},
                                         h \in {[kind |-> "absent", v |-> 0]}}
    \cup {[status |-> 429, retry_after |-> h] : h \in RetryAfterHeaders}

\* float(headers.get("Retry-After", "1.0")), in tenths of a second:
\* ValueError for text that is no number
RetryAfter(h) ==
    CASE h.kind = "absent" -> [raises |-> FALSE, inf |-> FALSE, v |-> 10]
      [] h.kind = "num"    -> [raises |-> FALSE, inf |-> FALSE, v |-> h.v]
      [] h.kind = "inf"    -> [raises |-> FALSE, inf |-> TRUE, v |-> 0]
      [] OTHER             -> [raises |-> TRUE, inf |-> FALSE, v |-> 0]

Mut_PostStep_unbounded(tries, r) ==
    IF r.status = 429 /\ ~RetryAfter(r.retry_after).raises
          /\ ~RetryAfter(r.retry_after).inf
    THEN [kind |-> "retry", status |-> 429,
          wait |-> IF RetryAfter(r.retry_after).v > 5
                   THEN RetryAfter(r.retry_after).v ELSE 5]
    ELSE [kind |-> "return", status |-> r.status, wait |-> 0]

\* one iteration of the while loop of _post, tries already incremented: the
\* response is returned, or the loop sleeps max(0.5, retry_after) and
\* continues, or float() / time.sleep() raise inside the HTTPError handler,
\* which no except clause of _post covers
PostStep(tries, r) ==
    IF r.status = 429 /\ tries < max_tries
    THEN LET ra == RetryAfter(r.retry_after)
         IN  IF ra.raises \/ ra.inf
             THEN [kind |-> "raise", status |-> 429, wait |-> 0]
             ELSE [kind |-> "retry", status |-> 429,
                   wait |-> IF ra.v > 5 THEN ra.v ELSE 5]
    ELSE [kind |-> "return", status |-> r.status, wait |-> 0]

\* status in (200, 204)
StatusOk(s) == s \in {200, 204}

notifyVars ==
    <<n_pc, n_op, n_phase, n_pages, n_page, n_tries, n_ok_all, n_ret, n_log, n_status>>

NotifyIdle ==
    /\ n_pc = "idle" /\ n_op = "none" /\ n_phase = "none" /\ n_pages = 0
    /\ n_page = 0 /\ n_tries = 0 /\ n_ok_all = TRUE /\ n_ret = "idle"
    /\ n_log = <<>> /\ n_status = 0

\* send_text(content) or send_embed(title, description) is called; content
\* splits into n_pages pages
NotifyInit ==
    /\ n_pc = "call" /\ n_op \in {"text", "embed"}
    /\ n_phase = "none" /\ n_pages \in 0..MaxPages
    /\ n_page = 0 /\ n_tries = 0 /\ n_ok_all = TRUE /\ n_ret = "pending"
    /\ n_log = <<>> /\ n_status = 0

\* send_embed, lines 145-154, and send_text, lines 166-170: up to the first
\* _post; send_text of no page returns ok_all at once
NotifyCall ==
    /\ n_pc = "call"
    /\ IF n_op = "text" /\ n_pages = 0
       THEN /\ n_pc' = "returned" /\ n_ret' = "true"
            /\ UNCHANGED <<n_phase, n_page>>
       ELSE /\ n_pc' = "post"
            /\ n_phase' = n_op
            /\ n_page' = IF n_op = "text" THEN 1 ELSE 0
            /\ UNCHANGED n_ret
    /\ UNCHANGED <<n_op, n_pages, n_tries, n_ok_all, n_log, n_status>>

\* _post returned status s to send_text (lines 171-176): next page or return
TextReturn(s) ==
    /\ n_ok_all' = (n_ok_all /\ StatusOk(s))
    /\ IF n_page < n_pages
       THEN /\ n_page' = n_page + 1 /\ n_pc' = "post"
            /\ UNCHANGED <<n_ret, n_phase, n_pages>>
       ELSE /\ n_pc' = "returned"
            /\ n_ret' = (IF n_ok_all /\ StatusOk(s) THEN "true" ELSE "false")
            /\ UNCHANGED <<n_page, n_phase, n_pages>>

\* _post returned status s to send_embed (lines 155-162): True, or the
\* fallback send_text of "**title**\n description", which has a page
EmbedReturn(s) ==
    IF StatusOk(s)
    THEN /\ n_pc' = "returned" /\ n_ret' = "true"
         /\ UNCHANGED <<n_phase, n_pages, n_page, n_ok_all>>
    ELSE /\ \E k \in 1..MaxPages : n_pages' = k
         /\ n_phase' = "text" /\ n_page' = 1 /\ n_pc' = "post"
         /\ UNCHANGED <<n_ret, n_ok_all>>

\* lines 110-139: urlopen answers r
Urlopen ==
    /\ n_pc = "post"
    /\ \E r \in Responses :
          LET t == n_tries + 1
              o == PostStep(t, r)
              log == (IF n_tries = 0 THEN <<>> ELSE n_log)
                     \o <<[status |-> r.status, retry_after |-> r.retry_after,
                           wait |-> o.wait]>>
          IN  /\ n_log' = log
              /\ CASE o.kind = "retry" ->
                        /\ n_pc' = "sleep" /\ n_tries' = t
                        /\ UNCHANGED <<n_phase, n_pages, n_page, n_ok_all, n_ret, n_status>>
                   [] o.kind = "raise" ->
                        /\ n_pc' = "raised" /\ n_tries' = t
                        /\ UNCHANGED <<n_phase, n_pages, n_page, n_ok_all, n_ret, n_status>>
                   [] OTHER ->
                        /\ n_tries' = 0
                        /\ n_status' = o.status
                        /\ IF n_phase = "text" THEN TextReturn(o.status)
                           ELSE EmbedReturn(o.status)
    /\ UNCHANGED n_op

\* line 132-133: time.sleep returns and the loop continues
SleepDone ==
    /\ n_pc = "sleep"
    /\ n_pc' = "post"
    /\ UNCHANGED <<n_op, n_phase, n_pages, n_page, n_tries, n_ok_all, n_ret, n_log, n_status>>

(***************************************************************************)
(* _split_content(s, limit)                                                *)
(***************************************************************************)
MaxSplitLen == 5     \* characters of a message body
MaxLimit == 4        \* largest page limit

SplitAlphabet == {"a", SP, NL}
SplitTexts == UNION {[1..n -> SplitAlphabet] : n \in 0..MaxSplitLen}

\* cur.rfind(ch, 0, limit): the last index below limit (from 0) that holds
\* ch, or -1
RFind(s, ch, limit) ==
    LET hits == {i \in 0..(limit - 1) : i < Len(s) /\ s[i + 1] = ch}
    IN  IF hits = {} THEN 0 - 1 ELSE CHOOSE h \in hits : \A g \in hits : g <= h

Mut_CutPoint_space_first(s, limit) ==
    IF RFind(s, SP, limit) >= 0 THEN RFind(s, SP, limit)
    ELSE IF RFind(s, NL, limit) >= 0 THEN RFind(s, NL, limit)
    ELSE limit

\* lines 42-47: cut
CutPoint(s, limit) ==
    IF RFind(s, NL, limit) >= 0 THEN RFind(s, NL, limit)
    ELSE IF RFind(s, SP, limit) >= 0 THEN RFind(s, SP, limit)
    ELSE limit

splitVars == <<s_limit, s_cur, s_out, s_pc>>

SplitIdle == s_limit = 0 /\ s_cur = <<>> /\ s_out = <<>> /\ s_pc = "idle"

\* lines 38-39: out = [], cur = s.strip()
SplitInit ==
    /\ s_limit \in 1..MaxLimit
    /\ \E s \in SplitTexts : s_cur = Strip(s)
    /\ s_out = <<>>
    /\ s_pc = "loop"

\* lines 40-49: one iteration of the while loop
SplitCut ==
    /\ s_pc = "loop"
    /\ Len(s_cur) > s_limit
    /\ s_out' = Append(s_out, RStrip(SubSeq(s_cur, 1, CutPoint(s_cur, s_limit))))
    /\ s_cur' = LStrip(SubSeq(s_cur, CutPoint(s_cur, s_limit) + 1, Len(s_cur)))
    /\ UNCHANGED <<s_limit, s_pc>>

\* lines 50-52: the rest, if any, is the last page
SplitReturn ==
    /\ s_pc = "loop"
    /\ Len(s_cur) <= s_limit
    /\ s_out' = IF s_cur # <<>> THEN Append(s_out, s_cur) ELSE s_out
    /\ s_pc' = "done"
    /\ UNCHANGED <<s_limit, s_cur>>

(***************************************************************************)
(* locate_calendar_root(page, hint, facility)                              *)
(* The page is the sequence of elements the loops of lines 251-270 meet,   *)
(* selector by selector and in document order within one selector.  An     *)
(* element is whether its text holds the hint, how many weekday markers    *)
(* its text holds, how many day cells it has, and whether reading its text *)
(* raises.                                                                 *)
(***************************************************************************)
MaxEls == 3          \* elements met by the generic selectors

HINT_SCORE == 2
WEEKDAY_MIN == 4
WEEKDAY_SCORE == 3
CELLS_MIN == 28
CELLS_SCORE == 3
SCORE_MIN == 5

\* lines 260-266: score of one element
Score(el) ==
    (IF el.hint THEN HINT_SCORE ELSE 0)
    + (IF el.wk >= WEEKDAY_MIN THEN WEEKDAY_SCORE ELSE 0)
    + (IF el.cells >= CELLS_MIN THEN CELLS_SCORE ELSE 0)

\* lines 251-270: candidates, the (score, el) pairs in the order met; an
\* element whose inner_text() raises is passed over
RECURSIVE Candidates(_, _)
Candidates(page, i) ==
    IF i > Len(page) THEN <<>>
    ELSE (IF ~page[i].raises /\ Score(page[i]) >= SCORE_MIN
          THEN <<[score |-> Score(page[i]), el |-> i]>> ELSE <<>>)
         \o Candidates(page, i + 1)

Mut_InsertDesc_before_equal(c, sorted) ==
    LET before == {k \in 1..Len(sorted) : sorted[k].score > c.score}
        n == Cardinality(before)
    IN  SubSeq(sorted, 1, n) \o <<c>> \o SubSeq(sorted, n + 1, Len(sorted))

\* one insertion of the stable sort by descending score: c goes behind
\* every pair already placed whose score is not lower
InsertDesc(c, sorted) ==
    LET before == {k \in 1..Len(sorted) : sorted[k].score >= c.score}
        n == Cardinality(before)
    IN  SubSeq(sorted, 1, n) \o <<c>> \o SubSeq(sorted, n + 1, Len(sorted))

\* line 273: candidates.sort(key=lambda x: x[0], reverse=True)
RECURSIVE SortDesc(_, _)
SortDesc(cands, sorted) ==
    IF cands = <<>> THEN sorted
    ELSE SortDesc(Tail(cands), InsertDesc(Head(cands), sorted))

\* locate_calendar_root: the element returned, or the RuntimeError
locate_calendar_root(sel, page) ==
    IF sel.configured /\ sel.first > 0 THEN [kind |-> "el", el |-> sel.first]
    ELSE IF Candidates(page, 1) = <<>> THEN [kind |-> "error", el |-> 0]
    ELSE [kind |-> "el", el |-> SortDesc(Candidates(page, 1), <<>>)[1].el]

locateVars == <<lc_sel, lc_page, lc_ret>>

LocateIdle ==
    /\ lc_sel = [configured |-> FALSE, first |-> 0]
    /\ lc_page = <<>>
    /\ lc_ret = [kind |-> "idle", el |-> 0]

\* any page of up to MaxEls elements; the facility's selector, when
\* configured, matches nothing (0) or has some element as its first match
LocateInit ==
    /\ lc_page \in UNION {[1..n -> [hint : BOOLEAN, wk : {WEEKDAY_MIN - 1, WEEKDAY_MIN},
                                     cells : {CELLS_MIN - 1, CELLS_MIN}, raises : {FALSE}]
                                    \cup {[hint |-> TRUE, wk |-> WEEKDAY_MIN,
                                           cells |-> CELLS_MIN, raises |-> TRUE]}]
                          : n \in 0..MaxEls}
    /\ lc_sel \in [configured : BOOLEAN, first : 0..MaxEls]
    /\ lc_sel.first <= Len(lc_page)
    /\ ~lc_sel.configured => lc_sel.first = 0
    /\ lc_ret = [kind |-> "pending", el |-> 0]

\* the call
LocateReturn ==
    /\ lc_ret.kind = "pending"
    /\ lc_ret' = locate_calendar_root(lc_sel, lc_page)
    /\ UNCHANGED <<lc_sel, lc_page>>

(***************************************************************************)
(* main and run_monitor                                                    *)
(***************************************************************************)
NmIdle == [via |-> "none", dated |-> FALSE, waited |-> "none", ok |-> FALSE]
CapIdle == [summary |-> EmptySummary, changed |-> FALSE]

runVars ==
    <<pc, run, hour, force, arg_facility, exit_code, facilities, fi, site_cals, body, month_text, cal_root,
      step, nm, cap, fs, clock, attempts, raised, captured, clicks, failed_at,
      changed_keys, notified>>

pureVars == <<classifyVars, extractVars, changeVars, notifyVars, splitVars, locateVars>>
vars == <<pureVars, runVars>>

RunIdle ==
    /\ pc = "idle" /\ run = 0 /\ hour = NoHour /\ force = FALSE
    /\ arg_facility = 0 /\ site_cals = 0
    /\ exit_code = Running /\ facilities = <<>> /\ fi = 0 /\ body = NoBody
    /\ month_text = MTNone /\ cal_root = 0 /\ step = 0 /\ nm = NmIdle
    /\ cap = CapIdle /\ fs = <<>> /\ clock = 0 /\ attempts = <<>>
    /\ raised = {} /\ captured = {} /\ clicks = [f \in 1..NFacilities |-> 0]
    /\ failed_at = [f \in 1..NFacilities |-> 0] /\ changed_keys = {}
    /\ notified = {}

\* is_within_monitoring_window(start_hour, end_hour)[0]
is_within_monitoring_window(h, start_hour, end_hour) ==
    IF h = NoHour THEN TRUE ELSE (start_hour <= h /\ h <= end_hour)

RunInit(hours, forces, args, cals) ==
    /\ pc = "main" /\ run = 1
    /\ hour \in hours /\ force \in forces /\ arg_facility \in args
    /\ site_cals = cals
    /\ exit_code = Running /\ facilities = <<>> /\ fi = 0 /\ body = NoBody
    /\ month_text = MTNone /\ cal_root = 0 /\ step = 0 /\ nm = NmIdle
    /\ cap = CapIdle /\ fs = <<>> /\ clock = 0 /\ attempts = <<>>
    /\ raised = {} /\ captured = {} /\ clicks = [f \in 1..NFacilities |-> 0]
    /\ failed_at = [f \in 1..NFacilities |-> 0] /\ changed_keys = {}
    /\ notified = {}

\* the facility being processed and its directory for the month shown
CurFacility == facilities[fi]
OutDir == [f |-> CurFacility, mt |-> month_text]

\* the for loop moves to the next facility, or run_monitor ends
LeaveFacility ==
    /\ fi' = fi + 1
    /\ pc' = IF fi < Len(facilities) THEN "nav" ELSE "done"
    /\ body' = NoBody /\ month_text' = MTNone /\ cal_root' = 0 /\ step' = 0
    /\ nm' = NmIdle /\ cap' = CapIdle

Mut_HandleException_abort ==
    /\ raised' = raised \cup {CurFacility}
    /\ fi' = Len(facilities) + 1
    /\ pc' = "done"
    /\ body' = NoBody /\ month_text' = MTNone /\ cal_root' = 0 /\ step' = 0
    /\ nm' = NmIdle /\ cap' = CapIdle

\* lines 757-764: the per-facility handler, then continue.  safe_mkdir of
\* OUTPUT_ROOT/_debug succeeds (ensure_root_dir, line 672, has written to
\* OUTPUT_ROOT) and a failing page.screenshot is swallowed at line 761
HandleException ==
    /\ raised' = raised \cup {CurFacility}
    /\ LeaveFacility

Mut_window_ignores_force(h, fc) ==
    ~is_within_monitoring_window(h, MONITOR_START_HOUR, MONITOR_END_HOUR)

\* lines 775-779: whether main exits at the window check
ExitsAtWindow(h, fc) ==
    ~fc /\ ~is_within_monitoring_window(h, MONITOR_START_HOUR, MONITOR_END_HOUR)

\* main, lines 775-781
MainWindow ==
    /\ pc = "main"
    /\ IF ExitsAtWindow(hour, force)
       THEN pc' = "exited" /\ exit_code' = 0
       ELSE pc' = "load_config" /\ UNCHANGED exit_code
    /\ UNCHANGED <<run, hour, force, arg_facility, site_cals, facilities, fi, body, month_text, cal_root, step,
                   nm, cap, fs, clock, attempts, raised, captured, clicks, failed_at,
                   changed_keys, notified>>
    /\ UNCHANGED pureVars

\* main, lines 783-793, and run_monitor, lines 670-684: load_config raises
\* (exit status 1), --facility names no facility (exit 0), or the loop starts
MainLoadConfig ==
    /\ pc = "load_config"
    /\ \/ /\ pc' = "exited" /\ exit_code' = 1
          /\ UNCHANGED <<facilities, fi>>
       \/ /\ arg_facility > NFacilities
          /\ pc' = "exited" /\ exit_code' = 0
          /\ UNCHANGED <<facilities, fi>>
       \/ /\ arg_facility <= NFacilities
          /\ facilities' = IF arg_facility = 0 THEN [i \in 1..NFacilities |-> i]
                            ELSE <<arg_facility>>
          /\ fi' = 1 /\ pc' = "nav"
          /\ UNCHANGED exit_code
    /\ UNCHANGED <<run, hour, force, arg_facility, site_cals, body, month_text, cal_root, step, nm, cap, fs,
                   clock, attempts, raised, captured, clicks, failed_at, changed_keys,
                   notified>>
    /\ UNCHANGED pureVars

StartBodies ==
    {NoBody} \cup {Heading(MonthAt(0).y, MonthAt(0).m, sp) : sp \in BOOLEAN}
Bodies ==
    {NoBody} \cup {Heading(mo.y, mo.m, sp) : mo \in MonthWindow, sp \in BOOLEAN}

\* lines 688-693: navigate_to_facility, then the month text or "unknown"
Navigate ==
    /\ pc = "nav"
    /\ attempts' = Append(attempts, CurFacility)
    /\ \/ /\ HandleException
          /\ UNCHANGED <<>>
       \/ /\ \E b \in StartBodies :
                /\ body' = b
                /\ month_text' = IF get_current_year_month_text(b).kind = "none"
                                 THEN MTUnknown ELSE get_current_year_month_text(b)
          /\ step' = 0 /\ pc' = "locate"
          /\ UNCHANGED <<fi, cal_root, nm, cap, raised>>
    /\ UNCHANGED <<run, hour, force, arg_facility, site_cals, exit_code, facilities, fs, clock, captured,
                   clicks, failed_at, changed_keys, notified>>
    /\ UNCHANGED pureVars

\* lines 695-698 and 734-738: locate_calendar_root raises, or the region is
\* found and the directory made; the month is captured at step 0 and at
\* the steps listed in shifts
Locate ==
    /\ pc = "locate"
    /\ \/ /\ HandleException
          /\ UNCHANGED fs
       \/ /\ \E c \in 1..site_cals : cal_root' = c
          /\ fs' = facility_month_dir(fs, OutDir)
          /\ pc' = IF step = 0 \/ step \in Shifts(CurFacility) THEN "summarize" ELSE "loop"
          /\ UNCHANGED <<fi, body, month_text, step, nm, cap, raised>>
    /\ UNCHANGED <<run, hour, force, arg_facility, site_cals, exit_code, facilities, clock, attempts, captured,
                   clicks, failed_at, changed_keys, notified>>
    /\ UNCHANGED pureVars

\* lines 700-702 and 739-741: summarize_vacancies, load_last_summary,
\* summaries_changed; or the extraction raises
Summarize ==
    /\ pc = "summarize"
    /\ \/ /\ HandleException
          /\ UNCHANGED <<captured, changed_keys>>
       \/ /\ LET r == summarize_vacancies(CalendarHtml(cal_root), RunConfig)
                 ch == summaries_changed(load_last_summary(fs, OutDir), AsDict(r.summary))
             IN  /\ cap' = [summary |-> r.summary, changed |-> ch]
                 /\ changed_keys' = IF ch THEN changed_keys \cup {OutDir} ELSE changed_keys
          /\ captured' = captured \cup {<<CurFacility, step>>}
          /\ pc' = "save"
          /\ UNCHANGED <<fi, body, month_text, cal_root, step, nm, raised>>
    /\ UNCHANGED <<run, hour, force, arg_facility, site_cals, exit_code, facilities, fs, clock, attempts,
                   clicks, failed_at, notified>>
    /\ UNCHANGED pureVars

\* lines 703 and 742: save_calendar_assets at second ts, complete or ended
\* by a write that raises
SaveAssets ==
    /\ pc = "save"
    /\ \E ts \in {clock, clock + 1}, fail \in 0..SaveWrites(TRUE) :
          LET r == save_calendar_assets(fs[OutDir], cal_root, ts, cap.changed, fail)
          IN  /\ ts <= MaxClock
              /\ clock' = ts
              /\ fs' = [fs EXCEPT ![OutDir] = r.dir]
              /\ IF r.raised
                 THEN HandleException
                 ELSE /\ pc' = "write_status"
                      /\ UNCHANGED <<fi, body, month_text, cal_root, step, nm, cap, raised>>
    /\ UNCHANGED <<run, hour, force, arg_facility, site_cals, exit_code, facilities, attempts, captured,
                   clicks, failed_at, changed_keys, notified>>
    /\ UNCHANGED pureVars

\* lines 705-719 and 744-755: status_counts.json replaced (or the write
\* raises), then the month loop
WriteStatus ==
    /\ pc = "write_status"
    /\ \/ /\ HandleException
          /\ UNCHANGED fs
       \/ /\ fs' = [fs EXCEPT ![OutDir].summary = AsDict(cap.summary)]
          /\ pc' = "loop"
          /\ UNCHANGED <<fi, body, month_text, cal_root, step, nm, cap, raised>>
    /\ UNCHANGED <<run, hour, force, arg_facility, site_cals, exit_code, facilities, clock, attempts, captured,
                   clicks, failed_at, changed_keys, notified>>
    /\ UNCHANGED pureVars

\* line 721 exhausted: the facility is done
FacilityDone ==
    /\ pc = "loop"
    /\ step >= max_shift(CurFacility)
    /\ LeaveFacility
    /\ UNCHANGED <<run, hour, force, arg_facility, site_cals, exit_code, facilities, fs, clock, attempts,
                   raised, captured, clicks, failed_at, changed_keys, notified>>
    /\ UNCHANGED pureVars

\* lines 721-722 and 324-358: the next step's click_next_month finds and
\* clicks a control, or returns False
NmFindClick ==
    /\ pc = "loop"
    /\ step < max_shift(CurFacility)
    /\ step' = step + 1
    /\ \E ctl \in Controls :
          LET r == FindAndClick(ctl, CurFacility, month_text)
          IN  IF r.via = "none"
              THEN /\ nm' = NmIdle
                   /\ pc' = "click_failed"
                   /\ UNCHANGED clicks
              ELSE /\ nm' = [via |-> r.via,
                           dated |-> HrefScan(ctl.hrefs, next_yyyymm01(month_text),
                                              cur01_of(month_text), 0) # 0,
                           waited |-> "none", ok |-> FALSE]
                   /\ pc' = "nm_wait"
                   /\ clicks' = [clicks EXCEPT ![CurFacility] = @ + 1]
    /\ UNCHANGED <<run, hour, force, arg_facility, site_cals, exit_code, facilities, fi, body, month_text,
                   cal_root, cap, fs, clock, attempts, raised, captured, failed_at,
                   changed_keys, notified>>
    /\ UNCHANGED pureVars

\* lines 360-383: the page answers the click with some heading (or none);
\* wait for the goal text, confirm the direction, return
NmWaitConfirm ==
    /\ pc = "nm_wait"
    /\ \E b \in Bodies :
          /\ body' = b
          /\ nm' = [nm EXCEPT !.waited = WaitOutcome(b, month_text),
                              !.ok = ConfirmDirection(b, month_text)]
          /\ pc' = IF ConfirmDirection(b, month_text) THEN "after_click"
                   ELSE "click_failed"
    /\ UNCHANGED <<run, hour, force, arg_facility, site_cals, exit_code, facilities, fi, month_text, cal_root,
                   step, cap, fs, clock, attempts, raised, captured, clicks, failed_at,
                   changed_keys, notified>>
    /\ UNCHANGED pureVars

Mut_ClickFailed_continue ==
    /\ pc = "click_failed"
    /\ failed_at' = [failed_at EXCEPT ![CurFacility] = step]
    /\ pc' = "loop"
    /\ UNCHANGED <<fi, body, month_text, cal_root, step, nm, cap, raised>>
    /\ UNCHANGED <<run, hour, force, arg_facility, site_cals, exit_code, facilities, fs, clock, attempts,
                   captured, clicks, changed_keys, notified>>
    /\ UNCHANGED pureVars

\* lines 723-728: the diagnostic screenshot (which may raise into the
\* handler), then break
ClickFailed ==
    /\ pc = "click_failed"
    /\ failed_at' = [failed_at EXCEPT ![CurFacility] = step]
    /\ \/ /\ LeaveFacility
          /\ UNCHANGED raised
       \/ HandleException
    /\ UNCHANGED <<run, hour, force, arg_facility, site_cals, exit_code, facilities, fs, clock, attempts,
                   captured, clicks, changed_keys, notified>>
    /\ UNCHANGED pureVars

\* lines 730-732: month_text2, then locate_calendar_root again
AfterClick ==
    /\ pc = "after_click"
    /\ month_text' = IF get_current_year_month_text(body).kind = "none"
                     THEN MTShift(step) ELSE get_current_year_month_text(body)
    /\ pc' = "locate"
    /\ UNCHANGED <<run, hour, force, arg_facility, site_cals, exit_code, facilities, fi, body, cal_root, step,
                   nm, cap, fs, clock, attempts, raised, captured, clicks, failed_at,
                   changed_keys, notified>>
    /\ UNCHANGED pureVars

\* line 766 and the return of main: exit status 0
Finish ==
    /\ pc = "done"
    /\ pc' = "exited" /\ exit_code' = 0
    /\ UNCHANGED <<run, hour, force, arg_facility, site_cals, facilities, fi, body, month_text, cal_root, step,
                   nm, cap, fs, clock, attempts, raised, captured, clicks, failed_at,
                   changed_keys, notified>>
    /\ UNCHANGED pureVars

\* the script is invoked again (cron): a new process over the same
\* OUTPUT_ROOT
NewRun ==
    /\ pc = "exited"
    /\ run < MaxRuns
    /\ run' = run + 1
    /\ pc' = "main"
    /\ exit_code' = Running /\ facilities' = <<>> /\ fi' = 0
    /\ attempts' = <<>> /\ raised' = {} /\ captured' = {}
    /\ clicks' = [f \in 1..NFacilities |-> 0]
    /\ failed_at' = [f \in 1..NFacilities |-> 0]
    /\ changed_keys' = {} /\ notified' = {}
    /\ UNCHANGED <<hour, force, arg_facility, site_cals, body, month_text, cal_root, step, nm, cap,
                   fs, clock>>
    /\ UNCHANGED pureVars

(***************************************************************************)
(* Specifications                                                          *)
(***************************************************************************)
\* one invocation inside the monitoring window over every configured facility
Init ==
    /\ RunInit({MONITOR_START_HOUR}, {FALSE}, {0}, 1)
    /\ ClassifyIdle /\ ExtractIdle /\ ChangeIdle /\ NotifyIdle /\ SplitIdle /\ LocateIdle
Next ==
    \/ MainWindow \/ MainLoadConfig \/ Navigate \/ Locate \/ Summarize
    \/ SaveAssets \/ WriteStatus \/ FacilityDone \/ NmFindClick \/ NmWaitConfirm
    \/ ClickFailed \/ AfterClick \/ Finish
Spec == Init /\ [][Next]_vars

\* one invocation at any hour, forced or not, with --facility given
InitMain ==
    /\ RunInit(Hours \cup {NoHour}, BOOLEAN, 1..(NFacilities + 1), 1)
    /\ ClassifyIdle /\ ExtractIdle /\ ChangeIdle /\ NotifyIdle /\ SplitIdle /\ LocateIdle
SpecMain == InitMain /\ [][Next]_vars

\* repeated invocations with --facility naming the first entry
InitRuns ==
    /\ RunInit({MONITOR_START_HOUR}, {FALSE}, {1}, NCalendars)
    /\ ClassifyIdle /\ ExtractIdle /\ ChangeIdle /\ NotifyIdle /\ SplitIdle /\ LocateIdle
NextRuns == Next \/ NewRun
SpecRuns == InitRuns /\ [][NextRuns]_vars

InitClassify == ClassifyInit /\ ExtractIdle /\ ChangeIdle /\ RunIdle /\ NotifyIdle /\ SplitIdle /\ LocateIdle
NextClassify == Classify /\ UNCHANGED <<extractVars, changeVars, runVars, notifyVars, splitVars, locateVars>>
SpecClassify == InitClassify /\ [][NextClassify]_vars

InitExtract == ExtractInit /\ ClassifyIdle /\ ChangeIdle /\ RunIdle /\ NotifyIdle /\ SplitIdle /\ LocateIdle
NextExtract == ExtractStep /\ UNCHANGED <<classifyVars, changeVars, runVars, notifyVars, splitVars, locateVars>>
SpecExtract == InitExtract /\ [][NextExtract]_vars

InitChange == ChangeInit /\ ClassifyIdle /\ ExtractIdle /\ RunIdle /\ NotifyIdle /\ SplitIdle /\ LocateIdle
NextChange == Compare /\ UNCHANGED <<classifyVars, extractVars, runVars, notifyVars, splitVars, locateVars>>
SpecChange == InitChange /\ [][NextChange]_vars

\* one call of send_text or send_embed against any responses of the endpoint
InitNotify == NotifyInit /\ ClassifyIdle /\ ExtractIdle /\ ChangeIdle /\ RunIdle /\ SplitIdle /\ LocateIdle
NextNotify ==
    \/ NotifyCall /\ UNCHANGED <<classifyVars, extractVars, changeVars, runVars, splitVars, locateVars>>
    \/ Urlopen /\ UNCHANGED <<classifyVars, extractVars, changeVars, runVars, splitVars, locateVars>>
    \/ SleepDone /\ UNCHANGED <<classifyVars, extractVars, changeVars, runVars, splitVars, locateVars>>
SpecNotify == InitNotify /\ [][NextNotify]_vars

\* _split_content applied to any body and limit
InitSplit == SplitInit /\ ClassifyIdle /\ ExtractIdle /\ ChangeIdle /\ RunIdle /\ NotifyIdle /\ LocateIdle
NextSplit ==
    \/ SplitCut /\ UNCHANGED <<classifyVars, extractVars, changeVars, runVars, notifyVars, locateVars>>
    \/ SplitReturn /\ UNCHANGED <<classifyVars, extractVars, changeVars, runVars, notifyVars, locateVars>>
SpecSplit == InitSplit /\ [][NextSplit]_vars

\* locate_calendar_root applied to any page and selector
InitLocate ==
    /\ LocateInit
    /\ ClassifyIdle /\ ExtractIdle /\ ChangeIdle /\ RunIdle /\ NotifyIdle /\ SplitIdle
NextLocate ==
    LocateReturn /\ UNCHANGED <<classifyVars, extractVars, changeVars, runVars, notifyVars, splitVars>>
SpecLocate == InitLocate /\ [][NextLocate]_vars

(***************************************************************************)
(* Properties                                                              *)
(***************************************************************************)

\* C1 (Spec): when run_monitor ends, every facility+month directory whose
\* summary was judged changed in this run has had the notifier called for it.
C1_ChangedIsNotified ==
    pc = "done" => changed_keys \subseteq notified

\* C2 (SpecRuns): a call of save_calendar_assets that completes overwrites
\* calendar.html and calendar.png with the captured region; when the decision
\* is "changed" it also leaves calendar_<ts>.html and calendar_<ts>.png of that
\* capture; when the decision is "unchanged" the set of timestamped files of
\* the directory is what it was before the call.
C2_HistoryOnlyOnChange ==
    [][ pc = "save" =>
          /\ (pc' = "write_status") =>
                /\ fs'[OutDir].html = cal_root
                /\ fs'[OutDir].png = cal_root
          /\ (pc' = "write_status" /\ cap.changed) =>
                /\ <<clock', cal_root>> \in fs'[OutDir].hist_html
                /\ <<clock', cal_root>> \in fs'[OutDir].hist_png
          /\ ~cap.changed =>
                /\ fs'[OutDir].hist_html = fs[OutDir].hist_html
                /\ fs'[OutDir].hist_png = fs[OutDir].hist_png
      ]_vars

\* a second invocation finds the counts of the first, overwrites the latest
\* copy with different markup and keeps the history of the first
C2_Witness ==
    /\ run = 2 /\ pc = "write_status" /\ ~cap.changed
    /\ fs[OutDir].html = cal_root /\ fs[OutDir].png = cal_root
    /\ fs[OutDir].hist_html # {}
    /\ \A h \in fs[OutDir].hist_html \cup fs[OutDir].hist_png : h[2] # cal_root

\* C3 (SpecChange): summaries_changed(prev, cur) is true exactly when prev is
\* None and cur is not, or one of the four counts of prev and cur differs (a
\* count the object lacks reading as 0); it is false whenever prev and cur
\* hold the same key/count pairs, in whatever order they list them.
C3_SummariesChanged ==
    changed_ret # "pending" =>
        /\ changed_ret = "true" <=>
              \/ prev.none /\ ~cur.none
              \/ \E k \in SeqRange(SummaryKeys) : DictGet(prev, k) # DictGet(cur, k)
        /\ (prev.none = cur.none /\ SeqRange(prev.items) = SeqRange(cur.items))
              => changed_ret = "false"

\* the same counts, some of them positive, listed in a different order
C3_Witness ==
    /\ changed_ret = "false"
    /\ ~prev.none /\ ~cur.none
    /\ prev.items # cur.items
    /\ SeqRange(prev.items) = SeqRange(cur.items)
    /\ \E k \in SeqRange(SummaryKeys) : DictGet(cur, k) > 0

\* C4 (Spec): the facilities attempted so far are a prefix of the configured
\* list (configured order, none twice), whatever was raised on the way, and
\* when the loop has ended every configured facility has been attempted.
C4_EveryFacilityAttemptedOnce ==
    /\ Len(attempts) <= Len(facilities)
    /\ attempts = SubSeq(facilities, 1, Len(attempts))
    /\ pc = "done" => attempts = facilities

\* the first facility raised and the later one was attempted all the same
C4_Witness ==
    /\ pc = "done"
    /\ facilities[1] \in raised
    /\ Len(attempts) = NFacilities
    /\ \E c \in captured : c[1] = facilities[Len(facilities)]

\* C5 (Spec): once click_next_month has returned False at step k for a
\* facility, the run holds no capture of that facility at an offset of k or
\* more, it has dispatched no click for it beyond step k, nothing of it is
\* being captured or saved, and the loop has moved past it.
C5_FailedTransitionAbandonsFacility ==
    \A f \in 1..NFacilities :
        failed_at[f] > 0 =>
            /\ \A c \in captured : c[1] = f => c[2] < failed_at[f]
            /\ clicks[f] <= failed_at[f]
            /\ \E i \in 1..Len(facilities) : facilities[i] = f /\ i < fi
            /\ pc \in {"nav", "locate", "summarize", "save", "write_status",
                       "loop", "nm_wait", "after_click", "click_failed"}
                  => CurFacility # f

\* the first facility's step 1 failed after its click was dispatched, its
\* first month was captured, and the next facility was processed
C5_Witness ==
    /\ pc = "done"
    /\ failed_at[1] = 1 /\ clicks[1] = 1
    /\ <<1, 0>> \in captured
    /\ attempts = <<1, 2>>
    /\ \E c \in captured : c[1] = 2

\* C6 (Spec): when click_next_month has returned True from a month text
\* Y年M月, the page shows exactly the month after (Y, M).
C6_SuccessShowsNextMonth ==
    (pc = "after_click" /\ month_text.kind = "ym") =>
        /\ body.has
        /\ MTym(body.y, body.m) = compute_next_month_text(month_text)

\* C7 (Spec): when the wait for the next month's text has timed out,
\* click_next_month does not return True.
C7_TimeoutIsFailure ==
    (pc = "after_click" /\ month_text.kind = "ym") => nm.waited # "timeout"

\* C8 (SpecMain): not forced and at an hour outside [MONITOR_START_HOUR,
\* MONITOR_END_HOUR], the process does nothing but exit with status 0, no
\* facility attempted; forced, it never ends without attempting the
\* facilities unless the configuration failed to load or --facility named
\* no entry, and with status 0 it has attempted every selected facility.
C8_WindowAndForce ==
    /\ (~force /\ hour \in Hours
          /\ (hour < MONITOR_START_HOUR \/ hour > MONITOR_END_HOUR)) =>
            /\ pc \in {"main", "exited"}
            /\ attempts = <<>>
            /\ pc = "exited" => exit_code = 0
    /\ (force /\ pc = "exited") =>
            \/ exit_code = 1
            \/ exit_code = 0 /\ arg_facility > NFacilities
            \/ exit_code = 0 /\ facilities # <<>> /\ attempts = facilities

\* forced at an hour before the window: the facility was processed
C8_Witness ==
    /\ force /\ hour < MONITOR_START_HOUR
    /\ pc = "exited" /\ exit_code = 0
    /\ attempts # <<>> /\ captured # {}

\* the statuses of the glyphs a text holds
C9_GlyphStatuses(text) ==
    {s \in {ST_CIRCLE, ST_TRIANGLE, ST_CROSS} :
        \E j \in 1..Len(text) :
            \/ s = ST_CIRCLE /\ text[j] \in {CIRCLE, CIRCLE_ALT}
            \/ s = ST_TRIANGLE /\ text[j] = TRIANGLE
            \/ s = ST_CROSS /\ text[j] = CROSS}

\* C9 (SpecClassify): for a text that holds a circle, alternate circle,
\* triangle or cross glyph the classifier returns the status of a glyph the
\* text holds (alternate circle as circle), whatever the keyword lists are.
C9_GlyphBeatsKeywords ==
    (st # "pending" /\ C9_GlyphStatuses(raw) # {}) => st \in C9_GlyphStatuses(raw)

\* a cross glyph in a text that a circle keyword matches as well
C9_Witness ==
    /\ st = ST_CROSS
    /\ Contains(raw, <<CROSS>>)
    /\ AnyKeyword(patterns.circle, Lower(FoldFullWidth(Strip(raw))))

\* the cell's visible text, its aria-label and title attributes and the alt
\* and title attributes of its images hold no day-number pattern
C10_NoDiscoverableDay(td) ==
    /\ find_day_in_text(InnerText(td.inner)) = <<>>
    /\ find_day_in_text(GetAttribute(td.attrs, A_ARIA_LABEL)) = <<>>
    /\ find_day_in_text(GetAttribute(td.attrs, A_TITLE)) = <<>>
    /\ \A i \in 1..Len(td.inner) :
          td.inner[i].k = "img" =>
              /\ find_day_in_text(GetAttribute(td.inner[i].attrs, A_ALT)) = <<>>
              /\ find_day_in_text(GetAttribute(td.inner[i].attrs, A_TITLE)) = <<>>

\* C10 (SpecExtract): a cell with no day-number pattern in its visible text,
\* its aria-label/title attributes and its images' alt/title attributes
\* changes neither the summary counts nor the per-day list.
C10_NoDayCellExcluded ==
    [][ (ti' = ti + 1 /\ C10_NoDiscoverableDay(td_block')) =>
            (summary' = summary /\ details' = details) ]_vars

\* no source of the cell yields a status: glyph or keyword in the visible
\* text, in an image's alt/title or src, in the cell's aria-label/title, or a
\* class keyword
C11_NoStatus(td, cfg) ==
    /\ st_from_text_and_src(InnerText(td.inner), cfg.status_patterns) = ST_NONE
    /\ st_from_text_and_src(Join2(GetAttribute(td.attrs, A_ARIA_LABEL),
                                  GetAttribute(td.attrs, A_TITLE)),
                            cfg.status_patterns) = ST_NONE
    /\ status_from_class(GetAttribute(td.attrs, A_CLASS), cfg.css_class_patterns) = ST_NONE
    /\ \A i \in 1..Len(td.inner) :
          td.inner[i].k = "img" =>
              st_from_text_and_src(
                  Join2(Join2(GetAttribute(td.inner[i].attrs, A_ALT),
                              GetAttribute(td.inner[i].attrs, A_TITLE)),
                        GetAttribute(td.inner[i].attrs, A_SRC)),
                  cfg.status_patterns) = ST_NONE

\* C11 (SpecExtract): a cell with a discoverable day number and no
\* classifiable status appends exactly one per-day record, of status
\* unknown, and adds one to the unknown count alone; after every cell the
\* four counts sum to the length of the per-day list.
C11_UnknownIsCounted ==
    [][ /\ (ti' = ti + 1 /\ ~C10_NoDiscoverableDay(td_block')
              /\ C11_NoStatus(td_block', config)) =>
                /\ Len(details') = Len(details) + 1
                /\ SubSeq(details', 1, Len(details)) = details
                /\ details'[Len(details')].status = ST_UNKNOWN
                /\ summary' = [summary EXCEPT ![ST_UNKNOWN] = @ + 1]
        /\ summary'[ST_CIRCLE] + summary'[ST_TRIANGLE] + summary'[ST_CROSS]
              + summary'[ST_UNKNOWN] = Len(details')
      ]_vars

\* a cell with a day and no status has just been recorded as unknown
C11_Witness ==
    /\ ti > 0
    /\ ~C10_NoDiscoverableDay(td_block)
    /\ C11_NoStatus(td_block, config)
    /\ details # <<>>
    /\ details[Len(details)].status = ST_UNKNOWN
    /\ summary[ST_UNKNOWN] >= 1

\* C12 (SpecNotify): whatever the endpoint answers, send_text and send_embed
\* do not raise.
C12_NeverRaises ==
    n_pc # "raised"

\* C13 (SpecNotify): one _post makes at most 3 attempts; every attempt that
\* was followed by another answered 429 and was followed by a wait of at
\* least the delay the server gave; the response of the last attempt is what
\* _post returns, and a call that returns after a _post whose status was
\* neither 200 nor 204 returns False.
C13_BoundedRetries ==
    /\ Len(n_log) <= 3
    /\ \A i \in 1..Len(n_log) :
          (i < Len(n_log) \/ n_pc = "sleep" \/ (n_pc = "post" /\ n_tries > 0)) =>
              /\ n_log[i].status = 429
              /\ n_log[i].wait > 0
              /\ n_log[i].retry_after.kind = "num" => n_log[i].wait >= n_log[i].retry_after.v
    /\ (n_tries = 0 /\ n_log # <<>>) => n_status = n_log[Len(n_log)].status
    /\ (n_pc = "returned" /\ n_log # <<>> /\ n_status \notin {200, 204}) => n_ret = "false"

\* three attempts all answered 429: the message is reported as failed
C13_Witness ==
    /\ n_pc = "returned" /\ n_ret = "false"
    /\ Len(n_log) = 3
    /\ n_status = 429
    /\ \A i \in 1..3 : n_log[i].status = 429

\* the indices below limit (from 0) at which the text t holds ch
C14_Within(t, ch, limit) == {i \in 0..(limit - 1) : i < Len(t) /\ t[i + 1] = ch}

\* the index the page must be cut at: the last newline within the first
\* limit characters, a space only when there is no such newline, the limit
\* when there is neither
C14_Cut(t, limit) ==
    LET nl == C14_Within(t, NL, limit)
        sp == C14_Within(t, SP, limit)
    IN  IF nl # {} THEN CHOOSE h \in nl : \A g \in nl : g <= h
        ELSE IF sp # {} THEN CHOOSE h \in sp : \A g \in sp : g <= h
        ELSE limit

\* C14 (SpecSplit): every page is non-empty and at most limit long; while the
\* remaining text is longer than the limit a page is cut from it at the last
\* newline within its first limit characters (at the last such space when
\* there is no such newline, at the limit when there is neither) and the
\* remaining text gets shorter, so the loop ends.
C14_PagesWithinLimit ==
    [][ /\ \A i \in 1..Len(s_out') : s_out'[i] # <<>> /\ Len(s_out'[i]) <= s_limit
        /\ (s_pc = "loop" /\ Len(s_cur) > s_limit) =>
              /\ Len(s_out') = Len(s_out) + 1
              /\ s_out'[Len(s_out')] = RStrip(SubSeq(s_cur, 1, C14_Cut(s_cur, s_limit)))
              /\ s_cur' = LStrip(SubSeq(s_cur, C14_Cut(s_cur, s_limit) + 1, Len(s_cur)))
              /\ Len(s_cur') < Len(s_cur)
        /\ (s_pc = "loop" /\ Len(s_cur) <= s_limit) => s_pc' = "done"
      ]_vars

\* a body with a space before a newline, both within the limit, was cut at
\* the newline: the first page keeps the space
C14_Witness ==
    /\ s_pc = "done"
    /\ Len(s_out) = 2
    /\ \E i \in 1..Len(s_out[1]) : s_out[1][i] = SP

\* C15 (SpecRuns): no step removes or replaces a file calendar_<ts>.html or
\* calendar_<ts>.png that a directory holds, whatever later saves write into
\* the directory, and a directory that holds calendar.html or calendar.png
\* keeps holding it.
C15_HistoryAppendOnly ==
    [][ \A k \in DOMAIN fs :
          /\ fs[k].hist_html \subseteq fs'[k].hist_html
          /\ fs[k].hist_png \subseteq fs'[k].hist_png
          /\ fs[k].html # 0 => fs'[k].html # 0
          /\ fs[k].png # 0 => fs'[k].png # 0
      ]_vars

\* the first status of a sequence of findings, unknown when every source
\* found nothing
C16_FirstFound(found) ==
    LET hits == {i \in 1..Len(found) : found[i] # ST_NONE}
    IN  IF hits = {} THEN ST_UNKNOWN
        ELSE found[CHOOSE h \in hits : \A g \in hits : h <= g]

\* the findings of the sources of one cell in the fixed order: visible text
\* (glyph, then keywords), alt/title of the images, src of the images,
\* aria-label/title of the cell, class of the cell
C16_Sources(td, cfg) ==
    LET imgs == Imgs(td.inner)
    IN  <<st_from_text_and_src(inner_text_like(td.inner), cfg.status_patterns)>>
        \o [i \in 1..Len(imgs) |->
              st_from_text_and_src(Join2(GetAttribute(imgs[i].attrs, A_ALT),
                                         GetAttribute(imgs[i].attrs, A_TITLE)),
                                   cfg.status_patterns)]
        \o [i \in 1..Len(imgs) |->
              st_from_text_and_src(GetAttribute(imgs[i].attrs, A_SRC), cfg.status_patterns)]
        \o <<st_from_text_and_src(Join2(GetAttribute(td.attrs, A_ARIA_LABEL),
                                        GetAttribute(td.attrs, A_TITLE)),
                                  cfg.status_patterns),
             status_from_class(GetAttribute(td.attrs, A_CLASS), cfg.css_class_patterns)>>

\* C16 (SpecExtract): the status recorded for a day cell is the finding of the
\* first source that yields one, in the order visible text, image alt/title,
\* image src, aria-label/title of the cell, class of the cell, and unknown
\* when no source yields one.
C16_FirstSourceDecides ==
    [][ (ti' = ti + 1 /\ Len(details') = Len(details) + 1) =>
            details'[Len(details')].status = C16_FirstFound(C16_Sources(td_block', config))
      ]_vars

\* the {day, status} records of a details list
C17_Records(ds) == [i \in 1..Len(ds) |-> [day |-> ds[i].day, status |-> ds[i].status]]

\* C17 (SpecExtract): on every cell the extractor by markup and the live
\* per-cell extractor add the same {day, status} record (or both none) and
\* the same count; and when retrieving the markup raises, what
\* summarize_vacancies accumulates is what the per-cell extractor does.
C17_BulkEqualsPerCell ==
    [][ ti' = ti + 1 =>
          LET fb == FallbackTd(td_block', config, [summary |-> summary, details |-> details])
          IN  /\ summary' = fb.summary
              /\ C17_Records(details') = C17_Records(fb.details)
              /\ html_raises => details' = fb.details
      ]_vars

\* C18 (Spec): a control found by a generic text selector is clicked only on
\* a page where the facility's selector found nothing and no moveCalender
\* anchor carries a date the scan would choose.
C18_TextControlIsLastResort ==
    (pc = "nm_wait" /\ nm.via = "text") => ~nm.dated

\* the score of an element: hint +2, at least 4 weekday markers +3, at least
\* 28 day cells +3
C19_Score(el) ==
    (IF el.hint THEN 2 ELSE 0) + (IF el.wk >= 4 THEN 3 ELSE 0)
    + (IF el.cells >= 28 THEN 3 ELSE 0)

\* the elements whose text can be read and whose score is at least 5
C19_AtThreshold == {i \in 1..Len(lc_page) : ~lc_page[i].raises /\ C19_Score(lc_page[i]) >= 5}

\* C19 (SpecLocate): with the facility's selector configured and matching,
\* its first match is returned; otherwise the element returned scores at
\* least 5, no element at the threshold scores higher and none with the same
\* score was met earlier; with no element at the threshold the call raises.
C19_BestCandidateOrError ==
    lc_ret.kind \notin {"pending", "idle"} =>
        IF lc_sel.configured /\ lc_sel.first > 0
        THEN lc_ret = [kind |-> "el", el |-> lc_sel.first]
        ELSE IF C19_AtThreshold = {} THEN lc_ret.kind = "error"
        ELSE /\ lc_ret.kind = "el"
             /\ lc_ret.el \in C19_AtThreshold
             /\ \A j \in C19_AtThreshold :
                   /\ C19_Score(lc_page[j]) <= C19_Score(lc_page[lc_ret.el])
                   /\ C19_Score(lc_page[j]) = C19_Score(lc_page[lc_ret.el]) => lc_ret.el <= j

\* three elements at the threshold, the second and third with the same score
\* above the first's: the second is returned
C19_Witness ==
    /\ lc_ret = [kind |-> "el", el |-> 2]
    /\ ~(lc_sel.configured /\ lc_sel.first > 0)
    /\ C19_AtThreshold = {1, 2, 3}
    /\ C19_Score(lc_page[1]) < C19_Score(lc_page[2])
    /\ C19_Score(lc_page[2]) = C19_Score(lc_page[3])

\* the offsets a facility captures: its configured month offsets and 0
C20_Offsets(f) == {o \in SeqRange(FacilityCfg(f).month_shifts) \cup {0} : o >= 0}

\* C20 (Spec): a facility's month is captured only at step 0 and at the steps
\* that are configured offsets; when the month loop stands at step k every
\* offset up to k has been captured, and a facility left without an exception
\* and without a failed transition has every offset captured; no more clicks
\* are dispatched for it than its largest offset.
C20_MonthsFollowOffsets ==
    \A f \in 1..NFacilities :
        /\ \A c \in captured : c[1] = f => c[2] \in C20_Offsets(f)
        /\ clicks[f] <= SetMax(C20_Offsets(f))
        /\ (pc = "loop" /\ CurFacility = f) =>
              \A o \in C20_Offsets(f) : o <= step => <<f, o>> \in captured
        /\ (/\ \E i \in 1..Len(facilities) : facilities[i] = f /\ i < fi
            /\ f \notin raised
            /\ failed_at[f] = 0) =>
              \A o \in C20_Offsets(f) : <<f, o>> \in captured

\* the facility configured with the single offset MaxShift was left with
\* months 0 and MaxShift captured, the month between visited and not
\* captured, and MaxShift clicks dispatched
C20_Witness ==
    /\ pc = "done"
    /\ 2 \notin raised /\ failed_at[2] = 0
    /\ clicks[2] = MaxShift
    /\ {c[2] : c \in {d \in captured : d[1] = 2}} = {0, MaxShift}

\* C21 (SpecRuns): status_counts.json of a directory is replaced only by the
\* write that follows a completed save, when calendar.html and calendar.png
\* hold the captured region and, the decision being "changed", so do
\* calendar_<ts>.html and calendar_<ts>.png; a save that raises leaves
\* status_counts.json as it was, so that counts equal to the ones just
\* captured still compare as changed against it.
C21_SummaryAfterCopies ==
    [][ /\ \A k \in DOMAIN fs :
              fs'[k].summary # fs[k].summary =>
                  /\ pc = "write_status" /\ k = OutDir
                  /\ fs[k].html = cal_root /\ fs[k].png = cal_root
                  /\ cap.changed =>
                        /\ <<clock, cal_root>> \in fs[k].hist_html
                        /\ <<clock, cal_root>> \in fs[k].hist_png
        /\ (pc = "write_status" /\ pc' = "loop") =>
              /\ fs[OutDir].html = cal_root /\ fs[OutDir].png = cal_root
              /\ cap.changed =>
                    /\ <<clock, cal_root>> \in fs[OutDir].hist_html
                    /\ <<clock, cal_root>> \in fs[OutDir].hist_png
        /\ (pc = "save" /\ pc' # "write_status") =>
              /\ fs'[OutDir].summary = fs[OutDir].summary
              /\ cap.changed =>
                    summaries_changed(load_last_summary(fs', OutDir), AsDict(cap.summary))
      ]_vars

\* the first invocation's save raised at calendar_<ts>.png, leaving no
\* status_counts.json; the second invocation detected the change again and
\* has written both history copies before status_counts.json
C21_Witness ==
    /\ run = 2 /\ pc = "write_status" /\ cap.changed
    /\ fs[OutDir].summary = NoneSummary
    /\ Cardinality(fs[OutDir].hist_html) = 2
    /\ fs[OutDir].hist_png = {<<clock, cal_root>>}

=============================================================================
